---------------------------- MODULE Spec2Model ----------------------------
(***************************************************************************)
(* Model of the visitzuidlimburg.nl scraper.                               *)
(*                                                                         *)
(*   Spec         main() of main.py: the sitemap-driven crawl loop         *)
(*   SpecExtract  find_outbound_in_soup on bounded documents               *)
(*   SpecPipe     the second pipeline: collect, normalise_record, filter   *)
(*   SpecOutbound the extractor on its own and as the crawl calls it       *)
(*                                                                         *)
(* Python strings are TLA+ strings; Len, SubSeq, Head, Tail and \o act on  *)
(* them character by character.                                            *)
(***************************************************************************)
EXTENDS Integers, Sequences, FiniteSets, TLC

(***************************************************************************)
(* Bounds of the model.                                                    *)
(***************************************************************************)
\* longest sitemap document, in <url> blocks
MaxBlocks == 2
\* largest value of --limit (0 = no limit)
MaxLimit == 2
\* longest document handed to the extractor, in elements
MaxElems == 2

(***************************************************************************)
(* Python string operations.                                               *)
(***************************************************************************)
UpperChars == "ABCDEFGHIJKLMNOPQRSTUVWXYZ"
LowerChars == "abcdefghijklmnopqrstuvwxyz"
Digits == "0123456789"

CharAt(s, ix) == SubSeq(s, ix, ix)

\* c in chars, for a one-character string c
CharIn(c, chars) == \E ix \in 1..Len(chars) : CharAt(chars, ix) = c

\* s[i:] (1-based i)
From(s, ix) == SubSeq(s, ix, Len(s))

\* s.startswith(p, i-1)
StartsAt(s, ix, p) == /\ ix + Len(p) - 1 <= Len(s)
                     /\ SubSeq(s, ix, ix + Len(p) - 1) = p

\* k in s
Contains(s, k) == \E ix \in 1..(Len(s) - Len(k) + 1) : SubSeq(s, ix, ix + Len(k) - 1) = k

\* the least member of a non-empty set of numbers
Least(S) == CHOOSE x \in S : \A y \in S : x <= y

\* the index in s, from i on, of the first character in chars, or Len(s)+1
FirstOf(s, ix, chars) ==
  Least({j \in ix..Len(s) : CharIn(CharAt(s, j), chars)} \cup {Len(s) + 1})

UpperSet == {CharAt(UpperChars, ix) : ix \in 1..Len(UpperChars)}

LowerChar(c) ==
  IF c \in UpperSet THEN CharAt(LowerChars, FirstOf(UpperChars, 1, c)) ELSE c

\* s.lower(), one half of s after the other
RECURSIVE Lower(_)
Lower(s) ==
  IF Len(s) = 0 THEN ""
  ELSE IF Len(s) = 1 THEN LowerChar(s)
  ELSE Lower(SubSeq(s, 1, Len(s) \div 2)) \o Lower(SubSeq(s, Len(s) \div 2 + 1, Len(s)))

\* the characters Python's str.strip() and the regex class \s remove
Whitespace == " \t\n\r"

\* s.lstrip(chars)
LStrip(s, chars) ==
  From(s, Least({j \in 1..Len(s) : ~CharIn(CharAt(s, j), chars)} \cup {Len(s) + 1}))

\* s.rstrip(chars)
RStrip(s, chars) ==
  SubSeq(s, 1, Len(s) + 1
               - Least({j \in 1..Len(s) : ~CharIn(CharAt(s, Len(s) + 1 - j), chars)}
                       \cup {Len(s) + 1}))

Strip(s) == RStrip(LStrip(s, Whitespace), Whitespace)

(***************************************************************************)
(* urllib.parse, as far as main.py uses it.                                *)
(***************************************************************************)
SchemeChars == LowerChars \o UpperChars \o Digits \o "+-."

\* urlsplit's scheme test, for the index colon of the first ":" of url: the
\* text before it starts with a letter and holds scheme characters only
HasScheme(url, colon) ==
  /\ colon > 1
  /\ colon <= Len(url)
  /\ CharIn(CharAt(url, 1), LowerChars \o UpperChars)
  /\ \A j \in 1..(colon - 1) : CharIn(CharAt(url, j), SchemeChars)

\* <<scheme, what follows the scheme and its colon>>
SplitScheme(url, colon) ==
  IF HasScheme(url, colon)
  THEN <<Lower(SubSeq(url, 1, colon - 1)), From(url, colon + 1)>>
  ELSE <<"", url>>

\* the netloc runs from after "//" to the first "/", "?" or "#"
SplitNetloc(scheme, rest) ==
  IF StartsAt(rest, 1, "//")
  THEN [scheme |-> scheme,
        netloc |-> SubSeq(rest, 3, FirstOf(rest, 3, "/?#") - 1),
        rest   |-> From(rest, FirstOf(rest, 3, "/?#"))]
  ELSE [scheme |-> scheme, netloc |-> "", rest |-> rest]

SplitRest(p) == SplitNetloc(p[1], p[2])

\* urlsplit(url): the scheme, the netloc, and path, query and fragment in one
urlsplit(url) == SplitRest(SplitScheme(url, FirstOf(url, 1, ":")))

\* urlparse(url).netloc
Netloc(url) == urlsplit(url).netloc

\* the greatest member of a non-empty set of numbers
Greatest(S) == CHOOSE x \in S : \A y \in S : x >= y

\* the directory of a path: the path up to and with its last "/"
DirOf(path) ==
  IF Contains(path, "/")
  THEN SubSeq(path, 1, Greatest({j \in 1..Len(path) : CharAt(path, j) = "/"}))
  ELSE "/"

\* the path of what follows the netloc: up to "?" or "#"
PathOf(rest) == SubSeq(rest, 1, FirstOf(rest, 1, "?#") - 1)

\* the schemes of urllib.parse.uses_relative that occur in web pages
UsesRelative == {"http", "https", "ftp", "file"}

\* urljoin for a base b and a reference u, both split; url is the reference
\* as written.  Dot segments ("..", ".") and query-only or fragment-only
\* references are not resolved: the documents of the model hold none.
JoinSplit(b, u, url) ==
  IF (u.scheme # "" /\ u.scheme # b.scheme) \/ b.scheme \notin UsesRelative THEN url
  ELSE IF u.netloc # "" THEN b.scheme \o "://" \o u.netloc \o u.rest
  ELSE IF StartsAt(u.rest, 1, "/") THEN b.scheme \o "://" \o b.netloc \o u.rest
  ELSE b.scheme \o "://" \o b.netloc \o DirOf(PathOf(b.rest)) \o u.rest

urljoin(base, url) ==
  IF base = "" THEN url
  ELSE IF url = "" THEN base
  ELSE JoinSplit(urlsplit(base), urlsplit(url), url)

(***************************************************************************)
(* main.py: the outbound-link extractor.                                   *)
(*                                                                         *)
(* A parsed document (the soup) is the sequence of its elements in         *)
(* document order.  An element is a record                                 *)
(*   tag      the element's name                                           *)
(*   text     get_text(" ", strip=True) of the element                     *)
(*   href     its href attribute, "" when it has none                      *)
(*   data     its data-* attributes, a sequence of <<name, value>>         *)
(*   onclick  its onclick attribute, "" when it has none                   *)
(* A missing attribute and an empty one are "" alike: the code tests       *)
(* every attribute it reads for truth before using it.                     *)
(***************************************************************************)
KEYWORDS == <<"direct boeken", "boek nu", "boeken", "reserveren",
              "naar de website", "website", "booking", "reserveer", "book">>

DATA_ATTRS == <<"data-href", "data-url", "data-link", "data-booking",
                "data-booking-url", "data-external-url", "data-cta-url",
                "data-target-url", "data-redirect", "data-redirect-url">>

\* any(k in low for k in KEYWORDS)
AnyKeywordIn(low) == \E n \in 1..Len(KEYWORDS) : Contains(low, KEYWORDS[n])

\* any(k in s.lower() for k in KEYWORDS)
HasKeyword(s) == AnyKeywordIn(Lower(s))

\* tag.get(attr) for a data attribute: "" when the element has none
GetAttr(tag, attr) ==
  IF \E n \in 1..Len(tag.data) : tag.data[n][1] = attr
  THEN tag.data[CHOOSE n \in 1..Len(tag.data) : tag.data[n][1] = attr][2]
  ELSE ""

OWN_DOMAIN == "visitzuidlimburg.nl"

\* bool(host) and "visitzuidlimburg.nl" not in host
ExternalHost(host) == host # "" /\ ~Contains(host, OWN_DOMAIN)

is_external(candidate) == ExternalHost(Lower(Netloc(candidate)))

\* what the extractor returns when nothing is found
NotFound == <<"", "">>

\* if is_external(url): return (label, url)
IfExternal(label, url) == IF is_external(url) THEN <<label, url>> ELSE NotFound

\* the result r of one step of a loop, or else the rest of the loop
OrElse(r, rest) == IF r # NotFound THEN r ELSE rest

\* The match of  https?://(?!guard)[^stops]+  at index i of s: the index
\* after the match, 0 when there is none.  p is the length of the scheme
\* prefix found at i; guard = "" stands for a pattern without lookahead.
UrlMatchAfter(s, ix, p, stops, guard) ==
  IF /\ p > 0
     /\ guard = "" \/ ~StartsAt(s, ix + p, guard)
     /\ FirstOf(s, ix + p, stops) > ix + p
  THEN FirstOf(s, ix + p, stops) ELSE 0

UrlMatchEnd(s, ix, stops, guard) ==
  UrlMatchAfter(s, ix,
                IF StartsAt(s, ix, "https://") THEN 8
                ELSE IF StartsAt(s, ix, "http://") THEN 7 ELSE 0,
                stops, guard)

\* the match that starts at the least of the indices hits
LeftmostMatch(s, hits, stops, guard) ==
  IF hits = {} THEN ""
  ELSE SubSeq(s, Least(hits), UrlMatchEnd(s, Least(hits), stops, guard) - 1)

\* re.search of the pattern in s: the leftmost match, "" when there is none
UrlSearch(s, stops, guard) ==
  LeftmostMatch(s, {ix \in 1..Len(s) : UrlMatchEnd(s, ix, stops, guard) > 0}, stops, guard)

\* r"(https?://[^\s'\"\\)]+)"
OnclickUrl(s) == UrlSearch(s, Whitespace \o "'\"\\)", "")

\* r"https?://(?!www\.visitzuidlimburg\.nl)[^\s\"']+"
ScriptUrl(s) == UrlSearch(s, Whitespace \o "\"'", "www.visitzuidlimburg.nl")

\* 1) the body of the loop over the anchors: tag is the element's name,
\* txt its stripped text, href its stripped href
AnchorMatch(tag, txt, href, base_url) ==
  IF tag = "a" /\ href # "" /\ txt # "" /\ HasKeyword(txt)
  THEN IfExternal(txt, urljoin(base_url, href))
  ELSE NotFound

RECURSIVE AnchorStrategy(_, _, _)
AnchorStrategy(soup, base_url, ix) ==
  IF ix > Len(soup) THEN NotFound
  ELSE OrElse(AnchorMatch(soup[ix].tag, Strip(soup[ix].text), Strip(soup[ix].href), base_url),
              AnchorStrategy(soup, base_url, ix + 1))

\* 2) the inner loop: the first data attribute, in DATA_ATTRS order, whose
\* value resolves to an external URL; the label is txt or the attribute
DataAttrMatch(v, label, base_url) ==
  IF v # "" THEN IfExternal(label, urljoin(base_url, Strip(v))) ELSE NotFound

RECURSIVE DataAttrOf(_, _, _, _)
DataAttrOf(tag, txt, base_url, n) ==
  IF n > Len(DATA_ATTRS) THEN NotFound
  ELSE OrElse(DataAttrMatch(GetAttr(tag, DATA_ATTRS[n]),
                            IF txt # "" THEN txt ELSE DATA_ATTRS[n], base_url),
              DataAttrOf(tag, txt, base_url, n + 1))

\* 2) the body of the loop over all elements
DataAttrTag(tag, txt, base_url) ==
  IF txt # "" /\ ~HasKeyword(txt) THEN NotFound ELSE DataAttrOf(tag, txt, base_url, 1)

RECURSIVE DataAttrStrategy(_, _, _)
DataAttrStrategy(soup, base_url, ix) ==
  IF ix > Len(soup) THEN NotFound
  ELSE OrElse(DataAttrTag(soup[ix], Strip(soup[ix].text), base_url),
              DataAttrStrategy(soup, base_url, ix + 1))

\* 3) the body of the loop over all elements: onclick is the stripped
\* handler, text the element's text
OnclickFound(label, m) == IF m # "" THEN IfExternal(label, m) ELSE NotFound

OnclickMatch(onclick, text) ==
  IF onclick # "" /\ (HasKeyword(onclick) \/ HasKeyword(text))
  THEN OnclickFound(Strip(IF text # "" THEN text ELSE "onclick"), OnclickUrl(onclick))
  ELSE NotFound

RECURSIVE OnclickStrategy(_, _)
OnclickStrategy(soup, ix) ==
  IF ix > Len(soup) THEN NotFound
  ELSE OrElse(OnclickMatch(Strip(soup[ix].onclick), soup[ix].text),
              OnclickStrategy(soup, ix + 1))

\* Strategy 4 relying on the lookahead of its pattern alone, without the
\* is_external test of the match.
ScriptFoundUnchecked(m) == IF m # "" THEN <<"script-url", m>> ELSE NotFound

\* 4) the body of the loop over the scripts: m is the first URL of the script
ScriptFound(m) == IF m # "" THEN IfExternal("script-url", m) ELSE NotFound

ScriptMatch(tag) == IF tag.tag = "script" THEN ScriptFound(ScriptUrl(tag.text)) ELSE NotFound

RECURSIVE ScriptStrategy(_, _)
ScriptStrategy(soup, ix) ==
  IF ix > Len(soup) THEN NotFound
  ELSE OrElse(ScriptMatch(soup[ix]), ScriptStrategy(soup, ix + 1))

\* The cascade with its first two strategies exchanged: the data attributes
\* are tried before the anchors.
find_outbound_data_first(soup, base_url) ==
  OrElse(DataAttrStrategy(soup, base_url, 1),
         OrElse(AnchorStrategy(soup, base_url, 1),
                OrElse(OnclickStrategy(soup, 1),
                       ScriptStrategy(soup, 1))))

find_outbound_in_soup(soup, base_url) ==
  OrElse(AnchorStrategy(soup, base_url, 1),
         OrElse(DataAttrStrategy(soup, base_url, 1),
                OrElse(OnclickStrategy(soup, 1),
                       ScriptStrategy(soup, 1))))

\* BeautifulSoup(html, "lxml") yields the elements of the page in document
\* order: a page of the model is that sequence.
extract_outbound_from_html(html, base_url) == find_outbound_in_soup(html, base_url)

(***************************************************************************)
(* The documents of the model.                                             *)
(***************************************************************************)
Elem(tag, text, href, data, onclick) ==
  [tag |-> tag, text |-> text, href |-> href, data |-> data, onclick |-> onclick]

AnchorBook   == Elem("a", "Direct boeken", " https://partner-hotel.com/book ", <<>>, "")
AnchorSocial == Elem("a", "Facebook", "https://www.facebook.com/visitzuidlimburg", <<>>, "")
AnchorOwn    == Elem("a", "Naar de website", "/overnachten/hotels", <<>>, "")
AnchorSub    == Elem("a", "Website", "https://shop.visitzuidlimburg.nl/tickets", <<>>, "")
AnchorNoKw   == Elem("a", "Lees meer", "https://elsewhere.example.org/", <<>>, "")
ButtonData   == Elem("button", "Boek nu", "",
                     <<<<"data-booking-url", "https://booking.example.org/r">>>>, "")
DivData      == Elem("div", "", "",
                     <<<<"data-redirect", "https://late.example.com/">>,
                       <<"data-href", "//cdn.example.net/w">>>>, "")
ButtonClick  == Elem("button", "Reserveren", "", <<>>,
                     "window.open('https://reserve.example.com/go')")
SpanClick    == Elem("span", "Info", "", <<>>,
                     "location.href='https://tickets.example.com/'")
ScriptJson   == Elem("script",
                     "{\"page\":\"https://www.visitzuidlimburg.nl/a\",\"book\":\"https://widget.example.io/b\"}",
                     "", <<>>, "")
ScriptSub    == Elem("script",
                     "var u='https://shop.visitzuidlimburg.nl/a'; var v='https://ext.example.com/';",
                     "", <<>>, "")

Elems == {AnchorBook, AnchorSocial, AnchorOwn, AnchorSub, AnchorNoKw, ButtonData,
          DivData, ButtonClick, SpanClick, ScriptJson, ScriptSub}

\* the documents of at most n elements
Soups(n) == UNION {[1..k -> Elems] : k \in 0..n}

DetailUrl  == "https://www.visitzuidlimburg.nl/eten-drinken/detail/cafe-central/77/"
SectionUrl == "https://www.visitzuidlimburg.nl/overnachten/hotels/"
ListingUrl == "https://www.visitzuidlimburg.nl/doen/wandelen"
OffSiteUrl == "https://partner.example.com/dir/page"

BaseUrls == {DetailUrl, OffSiteUrl}

(***************************************************************************)
(* State.                                                                  *)
(***************************************************************************)
VARIABLES
  \* main(): the crawl
  sitemap,    \* the sitemap document: its <url> blocks in document order
  args,       \* the parsed command line
  entries,    \* main's entries: the (url, lastmod) pairs still to be crawled
  pc,         \* where main() stands
  i,          \* the loop counter of main's for loop
  outbound,   \* outbound_label, outbound_url, outbound_source of the iteration
  page,       \* main's html and rendered: the page last fetched in the iteration
  rows,       \* main's rows
  log,        \* every request, extraction, delay and row so far, in order
  \* find_outbound_in_soup on its own: the arguments soup and base_url of
  \* the call, what it returned, where the call stands
  dom, dom_url, found, epc,
  \* the second pipeline
  csvrow,     \* one row of the intermediate CSV file, as DictReader yields it
  variant,    \* the filter variant the pipeline is configured with
  rec,        \* the record on its way through the pipeline
  verdict,    \* <<r, is_valid(r)>> for the record r last handed to is_valid
  out,        \* the records of the final table
  ppc         \* where the pipeline stands

crawlVars   == <<sitemap, args, entries, pc, i, outbound, page, rows, log>>
extractVars == <<dom, dom_url, found, epc>>
pipeVars    == <<csvrow, variant, rec, verdict, out, ppc>>
vars        == <<crawlVars, extractVars, pipeVars>>

(***************************************************************************)
(* SpecExtract: find_outbound_in_soup applied to a document.               *)
(***************************************************************************)
IdleExtract == dom = <<>> /\ dom_url = "" /\ found = NotFound /\ epc = "idle"

InitExtract ==
  /\ dom \in Soups(MaxElems)
  /\ dom_url \in BaseUrls
  /\ found = NotFound
  /\ epc = "ready"

Extract ==
  /\ epc = "ready"
  /\ found' = find_outbound_in_soup(dom, dom_url)
  /\ epc' = "done"
  /\ UNCHANGED <<dom, dom_url, crawlVars, pipeVars>>

(***************************************************************************)
(* main.py: the crawl.                                                     *)
(*                                                                         *)
(* A <url> block of the sitemap is a record whose loc and lastmod hold the *)
(* text of the child element, as a sequence of one string, or <<>> when    *)
(* the block has no such child.                                            *)
(***************************************************************************)
UrlBlocks ==
  { [loc |-> <<DetailUrl>>,                 lastmod |-> <<"2024-05-01">>],
    [loc |-> <<"\n  " \o SectionUrl \o "\n">>, lastmod |-> <<>>],
    [loc |-> <<ListingUrl>>,                lastmod |-> <<" 2023-11-30 ">>],
    [loc |-> <<"  ">>,                      lastmod |-> <<"2024-05-01">>],
    [loc |-> <<>>,                          lastmod |-> <<>>] }

Sitemaps == UNION {[1..k -> UrlBlocks] : k \in 0..MaxBlocks}

\* (el.text or "").strip() if el is not None else ""
ElementText(el) == IF el = <<>> THEN "" ELSE Strip(el[1])

\* parse_sitemap keeping one entry per location: a <url> block whose
\* location an earlier block carries is skipped.
RECURSIVE parse_sitemap_dedup(_)
parse_sitemap_dedup(xml) ==
  IF xml = <<>> THEN <<>>
  ELSE LET front   == parse_sitemap_dedup(SubSeq(xml, 1, Len(xml) - 1))
           loc     == ElementText(xml[Len(xml)].loc)
           lastmod == ElementText(xml[Len(xml)].lastmod)
       IN IF loc # "" /\ \A n \in 1..Len(front) : front[n][1] # loc
          THEN Append(front, <<loc, lastmod>>) ELSE front

RECURSIVE parse_sitemap(_)
parse_sitemap(xml) ==
  IF xml = <<>> THEN <<>>
  ELSE LET loc     == ElementText(Head(xml).loc)
           lastmod == ElementText(Head(xml).lastmod)
       IN (IF loc # "" THEN << <<loc, lastmod>> >> ELSE <<>>)
            \o parse_sitemap(Tail(xml))

\* entries[: args.limit] when args.limit > 0
ApplyLimit(es, limit) ==
  IF limit > 0 /\ limit < Len(es) THEN SubSeq(es, 1, limit) ELSE es

classify(url) ==
  IF Contains(url, "/overnachten/hotels/detail/") THEN "hotel-detail"
  ELSE IF Contains(url, "/overnachten/bed-breakfasts/detail/") THEN "bb-detail"
  ELSE IF Contains(url, "/overnachten/") /\ Contains(url, "/detail/") THEN "overnachten-detail"
  ELSE IF Contains(url, "/overnachten/") THEN "overnachten"
  ELSE IF Contains(url, "/eten-drinken/") /\ Contains(url, "/detail/") THEN "eten-drinken-detail"
  ELSE IF Contains(url, "/eten-drinken/") THEN "eten-drinken"
  ELSE IF Contains(url, "/doen/") /\ Contains(url, "/detail/") THEN "doen-detail"
  ELSE IF Contains(url, "/doen/") THEN "doen"
  ELSE IF Contains(url, "/zien-beleven/") /\ Contains(url, "/detail/") THEN "zien-beleven-detail"
  ELSE IF Contains(url, "/zien-beleven/") THEN "zien-beleven"
  ELSE IF Contains(url, "/govisit/") THEN "govisit"
  ELSE "overig"

\* The enrichment gate with the detail marker alone.
should_enrich_detail_only(url, enrich_all) ==
  IF enrich_all THEN TRUE ELSE Contains(url, "/detail/")

\* c.upper() for a one-character string c
UpperChar(c) ==
  IF CharIn(c, LowerChars) THEN CharAt(UpperChars, FirstOf(LowerChars, 1, c)) ELSE c

\* w.capitalize() for a non-empty w
Capitalize(w) == UpperChar(CharAt(w, 1)) \o Lower(From(w, 2))

\* the word name_from_url appends for the word w of the slug
NameWord(w) == IF Lower(w) \in {"bb", "b&b", "benb"} THEN "B&B" ELSE Capitalize(w)

\* parts[-1] for a url that does not end in "/"
LastPart(url) == From(url, Greatest({n \in 1..Len(url) : CharAt(url, n) = "/"} \cup {0}) + 1)

\* the url up to the end of parts[-2]: "" when parts has one member
BeforeLast(url) == RStrip(SubSeq(url, 1, Len(url) - Len(LastPart(url))), "/")

\* last.isdigit()
IsDigit(s) == s # "" /\ \A n \in 1..Len(s) : CharIn(CharAt(s, n), Digits)

Slug(url) ==
  IF IsDigit(LastPart(url)) /\ BeforeLast(url) # ""
  THEN LastPart(BeforeLast(url)) ELSE LastPart(url)

\* what slug.replace("-", " ").strip().split() splits at
WordSeps == "-" \o Whitespace

\* " ".join(out) for the words of s
JoinWord(w, rest) == IF rest = "" THEN w ELSE w \o " " \o rest

RECURSIVE NameWords(_)
WordAnd(t, e) == JoinWord(NameWord(SubSeq(t, 1, e - 1)), NameWords(From(t, e)))

WordsOf(t) == IF t = "" THEN "" ELSE WordAnd(t, FirstOf(t, 1, WordSeps))

NameWords(s) == WordsOf(LStrip(s, WordSeps))

name_from_url(url) ==
  IF RStrip(url, "/") = "" THEN "" ELSE NameWords(Slug(RStrip(url, "/")))

should_enrich(url, enrich_all) ==
  IF enrich_all THEN TRUE
  ELSE Contains(url, "/detail/") \/ Contains(url, "/overnachten/")

\* The render gate widened to the markers of the enrichment gate.
should_js_as_enrich(url, js_all) ==
  IF js_all THEN TRUE
  ELSE Contains(url, "/detail/") \/ Contains(url, "/overnachten/")

should_js(url, js_all) ==
  IF js_all THEN TRUE ELSE Contains(url, "/detail/")

\* what a page request returns when it succeeds
Pages == { <<AnchorOwn, ScriptSub>>, <<DivData, AnchorBook>>, <<AnchorSub, ButtonClick>> }

\* what fetch_text raises: raise_for_status, a timeout
FetchErrors == { [type |-> "HTTPError", text |-> "404 Client Error: Not Found"],
                 [type |-> "ReadTimeout", text |-> "Read timed out. (read timeout=20)"] }

\* what BeautifulSoup(html, "lxml") raises
ParseErrors == { [type |-> "FeatureNotFound", text |-> "lxml"] }

\* what fetch_rendered_html raises: no Playwright, and a navigation that
\* times out, with the empty message of a bare TimeoutError
RenderErrors == { [type |-> "RuntimeError",
                   text |-> "Playwright niet geinstalleerd. Run: python -m pip install playwright"],
                  [type |-> "TimeoutError", text |-> ""] }

\* The pure functions of the crawl, evaluated once for every argument the
\* sitemaps and the pages of the model can hand them: the actions look the
\* values up.
Locations == {ElementText(b.loc) : b \in UrlBlocks} \ {""}

TypeAt     == [u \in Locations |-> classify(u)] @@ <<>>
NameAt     == [u \in Locations |-> name_from_url(u)] @@ <<>>
EnrichAt   == [a \in Locations \X BOOLEAN |-> should_enrich(a[1], a[2])] @@ <<>>
JsAt       == [a \in Locations \X BOOLEAN |-> should_js(a[1], a[2])] @@ <<>>
OutboundAt == [a \in Pages \X Locations |-> extract_outbound_from_html(a[1], a[2])] @@ <<>>

Outbound(label, url, source) ==
  [outbound_label |-> label, outbound_url |-> url, outbound_source |-> source]

\* outbound_label, outbound_url = r; outbound_source = "html" if outbound_url else "none"
StaticOutbound(r) == Outbound(r[1], r[2], IF r[2] # "" THEN "html" ELSE "none")

\* The source set to "rendered" whatever the rendered extraction returned.
RenderedOutboundAlways(r, outbound_source) == Outbound(r[1], r[2], "rendered")

\* the same after rendering: "rendered" if outbound_url else outbound_source
RenderedOutbound(r, outbound_source) ==
  Outbound(r[1], r[2], IF r[2] # "" THEN "rendered" ELSE outbound_source)

\* An except clause that swallows the exception: the defaults stay.
ErrorSwallowed(e) == Outbound("", "", "none")

\* the except clause of the iteration
ErrorOutbound(e) == Outbound("ERROR", e.type \o ": " \o e.text, "error")

\* One step of main() as the log records it: ev is the step ("static" and
\* "rendered" are the two requests, "extract" an extraction, "sleep" the
\* delay, "row" the append), idx the entry it works on, ok whether it
\* returned rather than raised, url the outbound URL an extraction returned.
Event(ev, idx, ok, url) == [ev |-> ev, idx |-> idx, ok |-> ok, url |-> url]

Url     == entries[i][1]
Lastmod == entries[i][2]

IdleCrawl ==
  /\ sitemap = <<>>
  /\ args = [enrich |-> FALSE, enrich_all |-> FALSE, js |-> FALSE, js_all |-> FALSE, limit |-> 0]
  /\ entries = <<>>
  /\ pc = "idle"
  /\ i = 0
  /\ outbound = Outbound("", "", "none")
  /\ page = <<>>
  /\ rows = <<>>
  /\ log = <<>>

InitCrawl ==
  /\ sitemap \in Sitemaps
  /\ args \in [enrich : BOOLEAN, enrich_all : BOOLEAN, js : BOOLEAN, js_all : BOOLEAN,
               limit : 0..MaxLimit]
  /\ entries = <<>>
  /\ pc = "sitemap"
  /\ i = 0
  /\ outbound = Outbound("", "", "none")
  /\ page = <<>>
  /\ rows = <<>>
  /\ log = <<>>

\* fetch_text of the sitemap, parse_sitemap, the limit
ReadSitemap ==
  /\ pc = "sitemap"
  /\ entries' = ApplyLimit(parse_sitemap(sitemap), args.limit)
  /\ i' = 1
  /\ pc' = "loop"
  /\ UNCHANGED <<sitemap, args, outbound, page, rows, log, extractVars, pipeVars>>

\* the sitemap cannot be fetched or parsed: main() ends with the exception
SitemapFails ==
  /\ pc = "sitemap"
  /\ pc' = "aborted"
  /\ UNCHANGED <<sitemap, args, entries, i, outbound, page, rows, log, extractVars, pipeVars>>

\* the head of an iteration, up to the enrichment gate
BeginEntry ==
  /\ pc = "loop"
  /\ i <= Len(entries)
  /\ outbound' = Outbound("", "", "none")
  /\ pc' = IF args.enrich /\ EnrichAt[<<Url, args.enrich_all>>] THEN "static" ELSE "append"
  /\ UNCHANGED <<sitemap, args, entries, i, page, rows, log, extractVars, pipeVars>>

\* html = fetch_text(session, url, ...)
StaticFetch ==
  /\ pc = "static"
  /\ \/ \E pg \in Pages :
          /\ page' = pg
          /\ log' = Append(log, Event("static", i, TRUE, ""))
          /\ pc' = "extract"
          /\ UNCHANGED outbound
     \/ \E e \in FetchErrors :
          /\ outbound' = ErrorOutbound(e)
          /\ log' = Append(log, Event("static", i, FALSE, ""))
          /\ pc' = "sleep"
          /\ UNCHANGED page
  /\ UNCHANGED <<sitemap, args, entries, i, rows, extractVars, pipeVars>>

\* extract_outbound_from_html(html, url), the source, the render gate
StaticExtract ==
  /\ pc = "extract"
  /\ \/ /\ outbound' = StaticOutbound(OutboundAt[<<page, Url>>])
        /\ log' = Append(log, Event("extract", i, TRUE, outbound'.outbound_url))
        /\ pc' = IF args.js /\ outbound'.outbound_url = "" /\ JsAt[<<Url, args.js_all>>]
                 THEN "render" ELSE "sleep"
     \/ \E e \in ParseErrors :
          /\ outbound' = ErrorOutbound(e)
          /\ log' = Append(log, Event("extract", i, FALSE, ""))
          /\ pc' = "sleep"
  /\ UNCHANGED <<sitemap, args, entries, i, page, rows, extractVars, pipeVars>>

\* rendered = fetch_rendered_html(url, ...)
RenderedFetch ==
  /\ pc = "render"
  /\ \/ \E pg \in Pages :
          /\ page' = pg
          /\ log' = Append(log, Event("rendered", i, TRUE, ""))
          /\ pc' = "extract_rendered"
          /\ UNCHANGED outbound
     \/ \E e \in RenderErrors :
          /\ outbound' = ErrorOutbound(e)
          /\ log' = Append(log, Event("rendered", i, FALSE, ""))
          /\ pc' = "sleep"
          /\ UNCHANGED page
  /\ UNCHANGED <<sitemap, args, entries, i, rows, extractVars, pipeVars>>

\* extract_outbound_from_html(rendered, url) and the source
RenderedExtract ==
  /\ pc = "extract_rendered"
  /\ \/ /\ outbound' = RenderedOutbound(OutboundAt[<<page, Url>>],
                                         outbound.outbound_source)
        /\ log' = Append(log, Event("extract", i, TRUE, outbound'.outbound_url))
     \/ \E e \in ParseErrors :
          /\ outbound' = ErrorOutbound(e)
          /\ log' = Append(log, Event("extract", i, FALSE, ""))
  /\ pc' = "sleep"
  /\ UNCHANGED <<sitemap, args, entries, i, page, rows, extractVars, pipeVars>>

\* The delay placed inside the try block: an iteration that raised skips it.
SleepInsideTry ==
  /\ pc = "sleep"
  /\ log' = IF outbound.outbound_source = "error" THEN log
            ELSE Append(log, Event("sleep", i, TRUE, ""))
  /\ pc' = "append"
  /\ UNCHANGED <<sitemap, args, entries, i, outbound, page, rows, extractVars, pipeVars>>

\* time.sleep(max(0.0, args.delay))
Sleep ==
  /\ pc = "sleep"
  /\ log' = Append(log, Event("sleep", i, TRUE, ""))
  /\ pc' = "append"
  /\ UNCHANGED <<sitemap, args, entries, i, outbound, page, rows, extractVars, pipeVars>>

Row(url, lastmod, o) ==
  [url |-> url, lastmod |-> lastmod, type |-> TypeAt[url],
   naam_afgeleid |-> NameAt[url],
   outbound_label |-> o.outbound_label, outbound_url |-> o.outbound_url,
   outbound_source |-> o.outbound_source]

\* rows.append(Row(...)) and the step to the next entry
AppendRow ==
  /\ pc = "append"
  /\ rows' = Append(rows, Row(Url, Lastmod, outbound))
  /\ log' = Append(log, Event("row", i, TRUE, ""))
  /\ i' = i + 1
  /\ pc' = "loop"
  /\ UNCHANGED <<sitemap, args, entries, outbound, page, extractVars, pipeVars>>

\* the loop is over: the rows are written to the CSV file
WriteCsv ==
  /\ pc = "loop"
  /\ i > Len(entries)
  /\ pc' = "done"
  /\ UNCHANGED <<sitemap, args, entries, i, outbound, page, rows, log, extractVars, pipeVars>>

(***************************************************************************)
(* The second pipeline: sources/fitcsv.py, utils/normalise.py,             *)
(* utils/filters.py.                                                       *)
(***************************************************************************)
Record(naam, plaats, website, categorie) ==
  [naam |-> naam, plaats |-> plaats, website |-> website, categorie |-> categorie]

\* the body of collect's loop: one CSV row to one record
collect(row) ==
  Record(Strip(row.naam_afgeleid), Strip(row.city), Strip(row.url), Strip(row.category))

\* re.sub(r"\?.*$", "", url) for a url of one line: url up to its first "?"
DropQuery(url) == SubSeq(url, 1, FirstOf(url, 1, "?") - 1)

clean_url(url) == RStrip(DropQuery(Strip(url)), "/")

\* The category rules with the cafe rule ahead of the restaurant rule.
normalise_category_cafe_first(cat) ==
  IF Contains(Lower(cat), "cafe") THEN "Caf<U+00C3><U+00A9>"
  ELSE IF Contains(Lower(cat), "restaurant") THEN "Restaurant"
  ELSE "Overig"

\* The text the cafe rule returns is "Caf" and the two characters U+00C3 and
\* U+00A9, written here by their code points.
normalise_category(cat) ==
  LET c == Lower(cat)
  IN IF Contains(c, "restaurant") THEN "Restaurant"
     ELSE IF Contains(c, "cafe") THEN "Caf<U+00C3><U+00A9>"
     ELSE IF Contains(c, "hotel") \/ Contains(c, "logies") \/ Contains(c, "bnb") THEN "Logies"
     ELSE IF Contains(c, "winkel") THEN "Winkel"
     ELSE IF Contains(c, "wellness") \/ Contains(c, "sauna") THEN "Wellness"
     ELSE IF Contains(c, "attract") \/ Contains(c, "museum") THEN "Attractie"
     ELSE "Overig"

normalise_record(r) ==
  Record(Strip(r.naam), Strip(r.plaats), clean_url(r.website),
         normalise_category(r.categorie))

\* the list bad of is_valid
bad == <<"vvnnederland.nl", "booking.", "hotels.com", "expedia", "reserveer", "affiliate">>

\* is_valid matching the blocklist against the website as written, without
\* lower-casing it.
is_valid_case_sensitive(r) ==
  IF r.naam = "" THEN FALSE
  ELSE IF r.plaats = "" THEN FALSE
  ELSE IF r.website = "" THEN FALSE
  ELSE ~\E n \in 1..Len(bad) : Contains(r.website, bad[n])

is_valid(r) ==
  IF r.naam = "" THEN FALSE
  ELSE IF r.plaats = "" THEN FALSE
  ELSE IF r.website = "" THEN FALSE
  ELSE ~\E n \in 1..Len(bad) : Contains(Lower(r.website), bad[n])

\* The lenient filter variant of the specification, section 4.7: name and
\* place are mandatory, a website whose host is on the blocklist is cleared.
HostBlocklisted(website) ==
  \E n \in 1..Len(bad) : Contains(Lower(Netloc(website)), bad[n])

lenient_filter(r) ==
  IF r.naam = "" \/ r.plaats = "" THEN <<>>
  ELSE IF HostBlocklisted(r.website) THEN << [r EXCEPT !.website = ""] >>
  ELSE <<r>>

CafeCentralRow ==
  [naam_afgeleid |-> "Cafe Central", city |-> "Maastricht",
   url |-> "https://booking.com/x?ref=1", category |-> "restaurant"]

CsvRows ==
  {CafeCentralRow} \cup
  [naam_afgeleid : {"Cafe Central", ""},
   city          : {" Valkenburg", ""},
   url           : {"https://booking.com/x?ref=1", "https://www.cafecentral.nl/",
                    "https://myhotel.nl/reserveer", "HTTPS://WWW.HOTELS.COM/h1/",
                    "https://eetcafe.example.com/menu?src=affiliate", ""},
   category      : {"Cafe-Restaurant", "Hotel", ""}]

IdlePipe ==
  /\ csvrow = CafeCentralRow
  /\ variant = "strict"
  /\ rec = Record("", "", "", "")
  /\ verdict = <<>>
  /\ out = <<>>
  /\ ppc = "idle"

InitPipe ==
  /\ csvrow \in CsvRows
  /\ variant \in {"strict", "lenient"}
  /\ rec = Record("", "", "", "")
  /\ verdict = <<>>
  /\ out = <<>>
  /\ ppc = "collect"

Collect ==
  /\ ppc = "collect"
  /\ rec' = collect(csvrow)
  /\ ppc' = "normalise"
  /\ UNCHANGED <<csvrow, variant, verdict, out, crawlVars, extractVars>>

\* is_valid applied to the record as collected
ValidateRaw ==
  /\ ppc = "normalise"
  /\ verdict = <<>>
  /\ verdict' = <<rec, is_valid(rec)>>
  /\ UNCHANGED <<csvrow, variant, rec, out, ppc, crawlVars, extractVars>>

Normalise ==
  /\ ppc = "normalise"
  /\ rec' = normalise_record(rec)
  /\ ppc' = "filter"
  /\ UNCHANGED <<csvrow, variant, verdict, out, crawlVars, extractVars>>

\* the strict variant: the records is_valid admits
FilterStrict ==
  /\ ppc = "filter"
  /\ variant = "strict"
  /\ verdict' = <<rec, is_valid(rec)>>
  /\ out' = IF is_valid(rec) THEN <<rec>> ELSE <<>>
  /\ ppc' = "done"
  /\ UNCHANGED <<csvrow, variant, rec, crawlVars, extractVars>>

\* the lenient variant
FilterLenient ==
  /\ ppc = "filter"
  /\ variant = "lenient"
  /\ out' = lenient_filter(rec)
  /\ ppc' = "done"
  /\ UNCHANGED <<csvrow, variant, rec, verdict, crawlVars, extractVars>>

(***************************************************************************)
(* The specifications.                                                     *)
(***************************************************************************)
Init == InitCrawl /\ IdleExtract /\ IdlePipe

Next ==
  \/ ReadSitemap
  \/ SitemapFails
  \/ BeginEntry
  \/ StaticFetch
  \/ StaticExtract
  \/ RenderedFetch
  \/ RenderedExtract
  \/ Sleep
  \/ AppendRow
  \/ WriteCsv

Spec == Init /\ [][Next]_vars

InitE == IdleCrawl /\ InitExtract /\ IdlePipe

NextE == Extract

SpecExtract == InitE /\ [][NextE]_vars

InitP == IdleCrawl /\ IdleExtract /\ InitPipe

NextP ==
  \/ Collect
  \/ ValidateRaw
  \/ Normalise
  \/ FilterStrict
  \/ FilterLenient

SpecPipe == InitP /\ [][NextP]_vars

\* Every specification above starts one part of the program and leaves the
\* other two idle.  SpecOutbound runs the extractor both on its own, over
\* the bounded documents, and inside the crawl, over the fetched pages.
SpecOutbound == (Init \/ InitE) /\ [][Next \/ NextE]_vars

(***************************************************************************)
(* Properties of the crawl.                                                *)
(***************************************************************************)
Requests == {"static", "rendered"}

\* the positions of the log at which step ev of entry k stands
At(ev, k) == {p \in 1..Len(log) : log[p].ev = ev /\ log[p].idx = k}

\* the URL of entry k
UrlOf(k) == entries[k][1]

\* the locations with the detail marker, and those with either marker
DetailPages == {u \in Locations : Contains(u, "/detail/")}
MarkedPages == {u \in Locations : Contains(u, "/detail/") \/ Contains(u, "/overnachten/")}

\* the enrichment gate and the render gate, as the command line states them
EnrichGate(u) == args.enrich /\ (args.enrich_all \/ u \in MarkedPages)

RenderGate(u) == args.js /\ (args.js_all \/ u \in DetailPages)

\* C1: a rendered fetch of an entry is issued only directly after the static
\* fetch and the static extraction of the same entry have both returned,
\* the extraction without an outbound URL, and only when enrichment is
\* enabled for the entry and the render gate holds (--js, and "/detail/" in
\* the URL or --js-all); so it is never the first request of an entry.
RenderOnlyAfterStaticMiss ==
  \A p \in 1..Len(log) :
    log[p].ev = "rendered" =>
      /\ EnrichGate(UrlOf(log[p].idx))
      /\ RenderGate(UrlOf(log[p].idx))
      /\ p >= 3
      /\ log[p - 2] = Event("static", log[p].idx, TRUE, "")
      /\ log[p - 1] = Event("extract", log[p].idx, TRUE, "")
      /\ \A q \in 1..(p - 3) : log[q].idx # log[p].idx

\* a rendered fetch of a detail page, without --js-all
RenderedFetchIssued ==
  /\ ~args.js_all
  /\ Len(log) >= 3
  /\ log[Len(log)].ev = "rendered"
  /\ UrlOf(log[Len(log)].idx) = DetailUrl

\* C2: a step of an entry that raises does not end the run; no request and
\* no extraction of that entry follows it; the entry gets exactly one row,
\* whose source is "error"; and when the run is over every entry, the later
\* ones included, has its row.
FailureCaughtAtEntry ==
  \A p \in 1..Len(log) :
    ~log[p].ok =>
      /\ pc # "aborted"
      /\ \A q \in (p + 1)..Len(log) :
           log[q].idx = log[p].idx => log[q].ev \in {"sleep", "row"}
      /\ Cardinality(At("row", log[p].idx)) <= 1
      /\ Len(rows) >= log[p].idx =>
           /\ Cardinality(At("row", log[p].idx)) = 1
           /\ rows[log[p].idx].url = UrlOf(log[p].idx)
           /\ rows[log[p].idx].outbound_source = "error"
      /\ pc = "done" =>
           /\ Len(rows) = Len(entries)
           /\ \A k \in (log[p].idx + 1)..Len(entries) :
                Cardinality(At("row", k)) = 1 /\ rows[k].url = UrlOf(k)

\* the first entry failed at its static fetch, the second was fetched and
\* its link found
LaterEntryAfterFailure ==
  /\ pc = "done"
  /\ Len(rows) = 2
  /\ log[1] = Event("static", 1, FALSE, "")
  /\ rows[1].outbound_source = "error"
  /\ rows[2].outbound_source = "html"

\* the <url> blocks with a <loc> child whose text is not blank
LocatedBlocks ==
  {b \in UrlBlocks : /\ b.loc # <<>>
                     /\ \E n \in 1..Len(b.loc[1]) : ~CharIn(CharAt(b.loc[1], n), Whitespace)}

\* the text of a child element without the white space around it
Trimmed == {<<el, IF el = <<>> THEN "" ELSE Strip(el[1])>> :
              el \in {b.loc : b \in UrlBlocks} \cup {b.lastmod : b \in UrlBlocks}}

TrimmedText(el) == (CHOOSE t \in Trimmed : t[1] = el)[2]

\* the <url> blocks of the sitemap a row is due for: those with a location
HasLoc(block) == block \in LocatedBlocks

Located == SelectSeq(sitemap, HasLoc)

\* the first args.limit of the blocks when a limit is set, or else all
Within(blocks) == IF args.limit > 0 /\ args.limit < Len(blocks)
                  THEN SubSeq(blocks, 1, args.limit) ELSE blocks

\* the rows so far are the rows of the first of the blocks due
RowsOfFirst(due) ==
  /\ Len(rows) <= Len(due)
  /\ \A k \in 1..Len(rows) :
       /\ rows[k].url = TrimmedText(due[k].loc)
       /\ rows[k].lastmod = TrimmedText(due[k].lastmod)
  /\ pc = "done" => Len(rows) = Len(due)

\* C3 as stated: when the run is over there is one row for every <url>
\* block of the sitemap within the limit, in document order.
RowPerUrlBlock == pc = "done" => RowsOfFirst(Within(sitemap))

\* C3: the rows are at all times the rows of the first <url> blocks that
\* carry a non-blank location, one each and in document order, with the
\* block's trimmed location and last-modified text; when the run is over
\* there is one for every such block within the limit, whatever the flags
\* and whichever entries failed.  Blocks with equal locations get a row each.
RowPerLocatedBlock == RowsOfFirst(Within(Located))

\* two blocks with the same location, the first of them failing
DuplicateBlocksBothKept ==
  /\ pc = "done"
  /\ Len(sitemap) = 2
  /\ Len(rows) = 2
  /\ rows[1].url = rows[2].url
  /\ rows[1].outbound_source = "error"
  /\ rows[2].outbound_source # "error"

\* C4 as stated: outbound_url is non-empty exactly in the rows whose source
\* is "html" or "rendered".
UrlIffFound ==
  \A k \in 1..Len(rows) :
    rows[k].outbound_url # "" <=> rows[k].outbound_source \in {"html", "rendered"}

\* C4: outbound_url is non-empty exactly in the rows whose source is "html",
\* "rendered" or "error"; a row whose source is "none", enriched or not, has
\* an empty outbound_url, and an "error" row carries the exception text.
UrlIffFoundOrError ==
  \A k \in 1..Len(rows) :
    /\ rows[k].outbound_source \in {"none", "html", "rendered", "error"}
    /\ rows[k].outbound_url # ""
         <=> rows[k].outbound_source \in {"html", "rendered", "error"}
    /\ rows[k].outbound_source = "error" => rows[k].outbound_label = "ERROR"

\* a row of a failed entry next to a row found by rendering
ErrorRowAndRenderedRow ==
  /\ Len(rows) = 2
  /\ rows[1].outbound_source = "error"
  /\ rows[1].outbound_url = "TimeoutError: "
  /\ rows[2].outbound_source = "rendered"

\* C5: a page is requested for an entry only when enrichment is enabled
\* and the URL contains "/detail/" or "/overnachten/" or --enrich-all is
\* set, and every such entry that has got its row was requested; so a
\* listing URL with neither marker is not requested without --enrich-all.
\* An entry that is not enriched has no request, no extraction and no
\* delay, and its row has the source "none" and an empty label and URL.
EnrichmentGate ==
  \A k \in 1..Len(entries) :
    IF EnrichGate(UrlOf(k))
    THEN Len(rows) >= k => At("static", k) # {}
    ELSE /\ \A p \in 1..Len(log) : log[p].idx = k => log[p].ev = "row"
         /\ Len(rows) >= k =>
              /\ rows[k].outbound_source = "none"
              /\ rows[k].outbound_label = ""
              /\ rows[k].outbound_url = ""

\* under the default policy a listing URL got its row without a request
\* and an accommodation-section URL was requested
ListingSkippedSectionFetched ==
  /\ pc = "done"
  /\ args.enrich /\ ~args.enrich_all
  /\ Len(rows) = 2
  /\ rows[1].url = ListingUrl
  /\ rows[2].url = SectionUrl
  /\ At("static", 1) = {}
  /\ At("static", 2) # {}
  /\ rows[1].outbound_source = "none"

\* C6: the steps of the entries do not interleave; an entry that was
\* requested gets exactly one delay, after its last request and extraction
\* and before its row, whether the link was found, not found or a step
\* failed; an entry that was not requested gets none; and between the
\* requests of two entries lies the delay of the earlier one.
PolitenessDelay ==
  /\ \A p \in 1..Len(log) : \A q \in p..Len(log) : log[p].idx <= log[q].idx
  /\ \A k \in 1..Len(rows) :
       Cardinality(At("sleep", k)) = IF At("static", k) # {} THEN 1 ELSE 0
  /\ \A p \in 1..Len(log) :
       log[p].ev = "sleep" =>
         /\ At("static", log[p].idx) # {}
         /\ Cardinality(At("sleep", log[p].idx)) = 1
         /\ \A q \in 1..Len(log) :
              log[q].idx = log[p].idx /\ q # p => (q < p <=> log[q].ev # "row")
  /\ \A p \in 1..Len(log) : \A q \in p..Len(log) :
       /\ log[p].ev \in Requests
       /\ log[q].ev \in Requests
       /\ log[p].idx < log[q].idx
       => \E d \in (p + 1)..(q - 1) : log[d] = Event("sleep", log[p].idx, TRUE, "")

\* the first entry failed and the second found nothing: one delay each,
\* the first before the request of the second
DelayAfterFailureAndMiss ==
  /\ pc = "done"
  /\ Len(rows) = 2
  /\ rows[1].outbound_source = "error"
  /\ rows[2].outbound_source = "none"
  /\ At("static", 2) # {}
  /\ Cardinality(At("sleep", 1)) = 1
  /\ Cardinality(At("sleep", 2)) = 1

(***************************************************************************)
(* Properties of find_outbound_in_soup.                                    *)
(***************************************************************************)
\* what each strategy makes of the element at index p of soup
AnchorOf(p) == AnchorMatch(dom[p].tag, Strip(dom[p].text), Strip(dom[p].href), dom_url)
DataOf(p)   == DataAttrTag(dom[p], Strip(dom[p].text), dom_url)
ClickOf(p)  == OnclickMatch(Strip(dom[p].onclick), dom[p].text)
ScriptOf(p) == ScriptMatch(dom[p])

\* the elements of soup each strategy matches
AnchorHits == {p \in 1..Len(dom) : AnchorOf(p) # NotFound}
DataHits   == {p \in 1..Len(dom) : DataOf(p) # NotFound}
ClickHits  == {p \in 1..Len(dom) : ClickOf(p) # NotFound}
ScriptHits == {p \in 1..Len(dom) : ScriptOf(p) # NotFound}

\* C7: the cascade returns the result of the first strategy, in the order
\* anchor text, data attribute, onclick handler, script URL, that matches
\* any element of the document, and within that strategy the first element
\* in document order that it matches.  A matching anchor wins over a
\* matching data-attribute element wherever the two sit; a later strategy's
\* result is returned only when every earlier strategy matched nothing; and
\* nothing is returned only when no strategy matched.
CascadePriority ==
  epc = "done" =>
    /\ AnchorHits # {} => found = AnchorOf(Least(AnchorHits))
    /\ AnchorHits = {} /\ DataHits # {} => found = DataOf(Least(DataHits))
    /\ AnchorHits = {} /\ DataHits = {} /\ ClickHits # {} => found = ClickOf(Least(ClickHits))
    /\ AnchorHits = {} /\ DataHits = {} /\ ClickHits = {} /\ ScriptHits # {}
         => found = ScriptOf(Least(ScriptHits))
    /\ AnchorHits = {} /\ DataHits = {} /\ ClickHits = {} /\ ScriptHits = {}
         => found = NotFound

\* a matching data-attribute element ahead of a matching anchor: the anchor
\* is what the extractor returned
AnchorBeatsEarlierData ==
  /\ epc = "done"
  /\ Len(dom) = 2
  /\ DataOf(1) # NotFound
  /\ AnchorOf(2) # NotFound
  /\ found = AnchorOf(2)
  /\ found # DataOf(1)

\* the host of a URL as is_external reads it
HostOf(url) == Lower(Netloc(url))

OffSite(host) == host # "" /\ ~Contains(host, "visitzuidlimburg.nl")

\* the URLs that are off the site among those the extractor returns for the
\* pages of the crawl
OffSiteUrls ==
  {u \in {OutboundAt[a][2] : a \in Pages \X Locations} : OffSite(HostOf(u))}

\* C10: every non-empty URL find_outbound_in_soup returns has a non-empty
\* host that does not contain "visitzuidlimburg.nl", whichever strategy
\* produced it and whether the document was the static or the rendered page;
\* so does the outbound_url of every row whose source is "html" or
\* "rendered".
OutboundIsExternal ==
  /\ epc = "done" /\ found[2] # "" => OffSite(HostOf(found[2]))
  /\ \A p \in 1..Len(log) :
       log[p].ev = "extract" /\ log[p].url # "" => log[p].url \in OffSiteUrls
  /\ \A k \in 1..Len(rows) :
       rows[k].outbound_source \in {"html", "rendered"}
         => rows[k].outbound_url \in OffSiteUrls

\* a rendered page that links to a subdomain of the site under a keyword
\* and to an external site: the external link is the one reported
SubdomainLinkPassedOver ==
  /\ pc = "sleep"
  /\ Len(page) = 2
  /\ page[1] = AnchorSub
  /\ HasKeyword(page[1].text)
  /\ outbound.outbound_source = "rendered"
  /\ outbound.outbound_url = "https://reserve.example.com/go"

(***************************************************************************)
(* Properties of the second pipeline.                                      *)
(***************************************************************************)
Blocklist == {"vvnnederland.nl", "booking.", "hotels.com", "expedia", "reserveer", "affiliate"}

Complete(r) == r.naam # "" /\ r.plaats # "" /\ r.website # ""

\* a blocklist entry is a substring of the lower-cased text
Listed(text) == \E b \in Blocklist : Contains(text, b)

\* C8 as stated: is_valid admits a record exactly when name, place and
\* website are non-empty and the host of the website contains no blocklist
\* entry, whatever the path and the query of the website contain.
StrictFilterByHost ==
  verdict # <<>> =>
    (verdict[2] <=> Complete(verdict[1]) /\ ~Listed(Lower(Netloc(verdict[1].website))))

\* C8: is_valid admits a record exactly when name, place and website are
\* non-empty and the lower-cased website, taken whole (scheme, host, path
\* and query), contains no blocklist entry; so a record with an empty place
\* is never admitted, nor one whose host contains a blocklist entry, and the
\* strict variant's table holds exactly the admitted records.
StrictFilterByUrl ==
  /\ verdict # <<>> =>
       /\ verdict[2] <=> Complete(verdict[1]) /\ ~Listed(Lower(verdict[1].website))
       /\ verdict[1].plaats = "" => ~verdict[2]
       /\ Listed(Lower(Netloc(verdict[1].website))) => ~verdict[2]
  /\ ppc = "done" /\ variant = "strict" =>
       /\ verdict[1] = rec
       /\ out = IF verdict[2] THEN <<rec>> ELSE <<>>

\* a complete record whose host is on no blocklist entry, refused for the
\* path of its website
RefusedForItsPath ==
  /\ verdict # <<>>
  /\ Complete(verdict[1])
  /\ verdict[1].website = "https://myhotel.nl/reserveer"
  /\ ~Listed(Lower(Netloc(verdict[1].website)))
  /\ ~verdict[2]

\* the category the substring rules give the categories of CsvRows
Mapped(category) ==
  CASE Strip(category) = "restaurant"      -> "Restaurant"
    [] Strip(category) = "Cafe-Restaurant" -> "Restaurant"
    [] Strip(category) = "Hotel"           -> "Logies"
    [] Strip(category) = ""                -> "Overig"

=============================================================================
